---------------------------- MODULE Spec2Model ----------------------------
(***************************************************************************)
(* clientv2: the hierarchical facade over the flat dpservice legacy client. *)
(*                                                                         *)
(* Four specifications share this module.                                  *)
(*   SpecOpts  the call-option mechanism run statement by statement:       *)
(*             buildCallOptions' loop and toLegacyIgnored's conversion,    *)
(*             started on every option list up to MaxOpts options.         *)
(*   Spec      the facade: the constructors, the accessors and the         *)
(*             forwarding operations, each observed through the legacy     *)
(*             calls it emits and the value it returns.                    *)
(*   SpecConc  NumCallers goroutines, each making one operation call on    *)
(*             handles of one root, their statements interleaved.          *)
(*   SpecSeq   one goroutine making MaxCalls operation calls in a row.     *)
(***************************************************************************)
EXTENDS Naturals, Sequences, FiniteSets

VARIABLES
    \* ---- SpecOpts: one run of toLegacyIgnored(opts...) ----
    optsIn,     \* the variadic opts the run was started with
    idx,        \* position of `range opts` in buildCallOptions (next index)
    acc,        \* the local `o callOptions` under construction
    out,        \* what toLegacyIgnored returned: <<>> before it returns,
                \* then << the [][]uint32 >>
    pc,         \* "loop" | "built" | "done" ("idle" outside SpecOpts)
    \* ---- Spec: the facade ----
    root,       \* the *rootAdapter held by the caller, or NoRoot
    built,      \* how root was constructed: [ctor, arg]
    cur,        \* the handle the caller navigated to last, or NoHandle
    navs,       \* accessor calls made since root was constructed
    step,       \* the facade call made last: [kind, recv, name, ctx, params, opts]
    emitted,    \* the legacy-client calls that facade call made, in order
    ret,        \* the (object, error) pair that facade call returned
    \* ---- SpecConc, SpecSeq: operation calls in flight, per goroutine ----
    gpc,        \* "idle" | "loop" | "built": where the goroutine's call stands
    gcall,      \* the call it is making: [recv, name, ctx, id, opts]
    gidx,       \* position of `range opts` in that call's buildCallOptions
    frames,     \* memory holding the local `o callOptions` of the calls
    sent,       \* the legacy call the goroutine's last finished call made
    prior,      \* the option groups of the call it finished before that one
    budget      \* calls the goroutine has yet to start

optVars    == <<optsIn, idx, acc, out, pc>>
facadeVars == <<root, built, cur, navs, step, emitted, ret>>
callVars   == <<gpc, gcall, gidx, frames, sent, prior, budget>>
vars       == <<optsIn, idx, acc, out, pc, root, built, cur, navs, step, emitted, ret,
                gpc, gcall, gidx, frames, sent, prior, budget>>

\* the nil CallOption, the absent root, handle and return value
NilOption == [fn |-> "nil"]
NoRoot    == [type |-> "none"]
NoHandle  == [type |-> "none"]
NoReturn  == [obj |-> "none", err |-> "none"]

-----------------------------------------------------------------------------
(* Bounds and input sets *)

\* longest option list a SpecOpts run is started with
MaxOpts == 3
\* accessor calls followed per root in Spec
MaxNavs == 3
\* goroutines calling at the same time in SpecConc
NumCallers == 2
\* calls the one goroutine of SpecSeq makes
MaxCalls == 2

Callers == 1..NumCallers

\* []uint32 arguments given to WithIgnoredCodes
CodeLists == { <<>>, <<1001>>, <<1002, 1003>> }

-----------------------------------------------------------------------------
(* Call options: part_000 lines 15-46 *)

\* var o callOptions: the zero value, ignoredCodes a nil slice
ZeroCallOptions == [ignoredCodes |-> <<>>]

\* A CallOption is a closure; the only constructor captures `codes`.
WithIgnoredCodes(codes) == [fn |-> "WithIgnoredCodes.func", codes |-> codes]

\* Calling the closure WithIgnoredCodes returned, on *o.  The mutant
\* prepends the new codes instead of appending them.
CallOption_mutPrepend(opt, o) == [o EXCEPT !.ignoredCodes = opt.codes \o @]
CallOption(opt, o) == [o EXCEPT !.ignoredCodes = @ \o opt.codes]

\* The body of `for _, opt := range opts` in buildCallOptions.  The mutant
\* lets a nil option wipe what was accumulated before it.
LoopBody_mutNilResets(opt, o) == IF opt # NilOption THEN CallOption(opt, o) ELSE ZeroCallOptions
LoopBody(opt, o) == IF opt # NilOption THEN CallOption(opt, o) ELSE o

RECURSIVE ApplyAll(_, _)
ApplyAll(opts, o) ==
    IF opts = <<>> THEN o ELSE ApplyAll(Tail(opts), LoopBody(Head(opts), o))

buildCallOptions(opts) == ApplyAll(opts, ZeroCallOptions)

\* toLegacyIgnored after the build: nil (no variadic argument at all) when
\* no code was accumulated, otherwise one group.  The mutant drops the
\* length test; the second wraps every code in a group of its own.
LegacyForm_mutAlwaysGroup(o) == << o.ignoredCodes >>
LegacyForm_mutGroupPerCode(o) ==
    [k \in 1..Len(o.ignoredCodes) |-> << o.ignoredCodes[k] >>]
LegacyForm(o) == IF Len(o.ignoredCodes) = 0 THEN <<>> ELSE << o.ignoredCodes >>

toLegacyIgnored(opts) == LegacyForm(buildCallOptions(opts))

\* The option values a caller passes: nil, or a WithIgnoredCodes closure.
OptionValues == {NilOption} \cup { WithIgnoredCodes(cs) : cs \in CodeLists }

RECURSIVE SeqsUpTo(_, _)
SeqsUpTo(S, n) ==
    IF n = 0 THEN { <<>> }
    ELSE LET shorter == SeqsUpTo(S, n - 1)
         IN  shorter \cup { Append(s, x) : s \in shorter, x \in S }

OptLists == SeqsUpTo(OptionValues, MaxOpts)

-----------------------------------------------------------------------------
(* SpecOpts *)

\* no operation call under observation
NoCall == [recv |-> "none"]
NoSent == [method |-> "none"]

CallsIdle ==
    /\ gpc = [g \in Callers |-> "idle"]
    /\ gcall = [g \in Callers |-> NoCall]
    /\ gidx = [g \in Callers |-> 1]
    /\ frames = [f \in Callers |-> ZeroCallOptions]
    /\ sent = [g \in Callers |-> NoSent]
    /\ prior = [g \in Callers |-> <<>>]

FacadeIdle ==
    /\ root = NoRoot
    /\ built = [ctor |-> "none"]
    /\ cur = NoHandle
    /\ navs = 0
    /\ step = [kind |-> "none"]
    /\ emitted = <<>>
    /\ ret = NoReturn

InitOpts ==
    /\ optsIn \in OptLists
    /\ idx = 1
    /\ acc = ZeroCallOptions
    /\ out = <<>>
    /\ pc = "loop"
    /\ FacadeIdle
    /\ CallsIdle
    /\ budget = [g \in Callers |-> 0]

\* one iteration of the range loop
LoopStep ==
    /\ pc = "loop"
    /\ idx <= Len(optsIn)
    /\ acc' = LoopBody(optsIn[idx], acc)
    /\ idx' = idx + 1
    /\ UNCHANGED <<optsIn, out, pc>>
    /\ UNCHANGED facadeVars
    /\ UNCHANGED callVars

\* the loop is exhausted: return o
BuildReturn ==
    /\ pc = "loop"
    /\ idx > Len(optsIn)
    /\ pc' = "built"
    /\ UNCHANGED <<optsIn, idx, acc, out>>
    /\ UNCHANGED facadeVars
    /\ UNCHANGED callVars

\* toLegacyIgnored's test and return
Convert ==
    /\ pc = "built"
    /\ out' = << LegacyForm(acc) >>
    /\ pc' = "done"
    /\ UNCHANGED <<optsIn, idx, acc>>
    /\ UNCHANGED facadeVars
    /\ UNCHANGED callVars

NextOpts == LoopStep \/ BuildReturn \/ Convert

SpecOpts == InitOpts /\ [][NextOpts]_vars

-----------------------------------------------------------------------------
(* The facade: part_000 lines 48-359 *)

\* legacy clients that exist before the facade is built, and raw rpc clients
LegacyClients == { [client |-> "legacy-1"], [client |-> "legacy-2"] }
RpcClients    == { "rpc-1" }

\* what callers pass
Contexts == { "ctx-todo", "ctx-deadline" }
Ids      == { "iface-1", "lb-1" }
Vnis     == { 42, 7 }
VniTypes == { 0, 1 }
Prefixes == { "pfx-a", "pfx-b" }
Addrs    == { "ip-a", "ip-b" }
Payloads == { "obj-a", "obj-b" }
CallerOpts ==
    { <<>>,
      << NilOption >>,
      << WithIgnoredCodes(<<1001>>) >>,
      << WithIgnoredCodes(<<1001>>), WithIgnoredCodes(<<1002, 1003>>) >> }

\* what a legacy method answers: success, a transport failure, a remote
\* failure (the object carries the status), a remote code that was ignored
Replies ==
    { [obj |-> "object",        err |-> "nil"],
      [obj |-> "nil",           err |-> "rpc error"],
      [obj |-> "object+status", err |-> "status error"],
      [obj |-> "object+status", err |-> "nil"] }

\* legacy.NewClient(rpc): a legacy client of its own around rpc
NewClient(rpc) == [client |-> "new", rpc |-> rpc]

NewFromProto(rpc) == [type |-> "rootAdapter", legacy |-> NewClient(rpc)]

\* mutant: wraps the given client in a legacy client of its own
AsV2_mutRewraps(c) == [type |-> "rootAdapter", legacy |-> NewClient(c)]

AsV2(c) == [type |-> "rootAdapter", legacy |-> c]

\* Every method below yields what the call does: the receiver after the
\* call (self), the legacy calls made (calls) and the value returned (ret).

\* ---- rootAdapter: lines 69-80 ----

rootAdapter_LoadBalancers(r) ==
    [self |-> r, calls |-> <<>>, ret |-> [type |-> "lbClient", legacy |-> r.legacy]]

rootAdapter_Interfaces(r) ==
    [self |-> r, calls |-> <<>>, ret |-> [type |-> "ifaceClient", legacy |-> r.legacy]]

rootAdapter_Routes(r) ==
    [self |-> r, calls |-> <<>>, ret |-> [type |-> "routeClient", legacy |-> r.legacy]]

rootAdapter_NATs(r) ==
    [self |-> r, calls |-> <<>>, ret |-> [type |-> "natClient", legacy |-> r.legacy]]

rootAdapter_Firewall(r) ==
    [self |-> r, calls |-> <<>>, ret |-> [type |-> "fwClient", legacy |-> r.legacy]]

rootAdapter_System(r) ==
    [self |-> r, calls |-> <<>>, ret |-> [type |-> "systemClient", legacy |-> r.legacy]]

rootAdapter_Capture(r) ==
    [self |-> r, calls |-> <<>>, ret |-> [type |-> "captureClient", legacy |-> r.legacy]]

\* ---- lbClient: lines 108-123 ----

lbClient_Get(c, ctx, id, opts, reply) ==
    [self  |-> c,
     calls |-> << [client |-> c.legacy, method |-> "GetLoadBalancer", ctx |-> ctx,
                   args |-> <<id>>, ignored |-> toLegacyIgnored(opts)] >>,
     ret   |-> reply]

lbClient_List(c, ctx, opts, reply) ==
    [self  |-> c,
     calls |-> << [client |-> c.legacy, method |-> "ListLoadBalancers", ctx |-> ctx,
                   args |-> <<>>, ignored |-> toLegacyIgnored(opts)] >>,
     ret   |-> reply]

lbClient_Create(c, ctx, lb, opts, reply) ==
    [self  |-> c,
     calls |-> << [client |-> c.legacy, method |-> "CreateLoadBalancer", ctx |-> ctx,
                   args |-> <<lb>>, ignored |-> toLegacyIgnored(opts)] >>,
     ret   |-> reply]

lbClient_Delete(c, ctx, id, opts, reply) ==
    [self  |-> c,
     calls |-> << [client |-> c.legacy, method |-> "DeleteLoadBalancer", ctx |-> ctx,
                   args |-> <<id>>, ignored |-> toLegacyIgnored(opts)] >>,
     ret   |-> reply]

lbClient_Prefixes(c) ==
    [self |-> c, calls |-> <<>>, ret |-> [type |-> "lbPrefixesClient", legacy |-> c.legacy]]

lbClient_Targets(c) ==
    [self |-> c, calls |-> <<>>, ret |-> [type |-> "lbTargetsClient", legacy |-> c.legacy]]

\* ---- lbPrefixesClient: lines 125-135 ----

\* mutant: lists the interface prefixes instead
lbPrefixesClient_List_mutInterfacePrefixes(c, ctx, interfaceID, opts, reply) ==
    [self  |-> c,
     calls |-> << [client |-> c.legacy, method |-> "ListPrefixes", ctx |-> ctx,
                   args |-> <<interfaceID>>, ignored |-> toLegacyIgnored(opts)] >>,
     ret   |-> reply]

lbPrefixesClient_List(c, ctx, interfaceID, opts, reply) ==
    [self  |-> c,
     calls |-> << [client |-> c.legacy, method |-> "ListLoadBalancerPrefixes", ctx |-> ctx,
                   args |-> <<interfaceID>>, ignored |-> toLegacyIgnored(opts)] >>,
     ret   |-> reply]

lbPrefixesClient_Create(c, ctx, prefix, opts, reply) ==
    [self  |-> c,
     calls |-> << [client |-> c.legacy, method |-> "CreateLoadBalancerPrefix", ctx |-> ctx,
                   args |-> <<prefix>>, ignored |-> toLegacyIgnored(opts)] >>,
     ret   |-> reply]

lbPrefixesClient_Delete(c, ctx, interfaceID, prefix, opts, reply) ==
    [self  |-> c,
     calls |-> << [client |-> c.legacy, method |-> "DeleteLoadBalancerPrefix", ctx |-> ctx,
                   args |-> <<interfaceID, prefix>>, ignored |-> toLegacyIgnored(opts)] >>,
     ret   |-> reply]

\* ---- lbTargetsClient: lines 137-147 ----

lbTargetsClient_List(c, ctx, loadBalancerID, opts, reply) ==
    [self  |-> c,
     calls |-> << [client |-> c.legacy, method |-> "ListLoadBalancerTargets", ctx |-> ctx,
                   args |-> <<loadBalancerID>>, ignored |-> toLegacyIgnored(opts)] >>,
     ret   |-> reply]

lbTargetsClient_Create(c, ctx, target, opts, reply) ==
    [self  |-> c,
     calls |-> << [client |-> c.legacy, method |-> "CreateLoadBalancerTarget", ctx |-> ctx,
                   args |-> <<target>>, ignored |-> toLegacyIgnored(opts)] >>,
     ret   |-> reply]

lbTargetsClient_Delete(c, ctx, lbID, targetIP, opts, reply) ==
    [self  |-> c,
     calls |-> << [client |-> c.legacy, method |-> "DeleteLoadBalancerTarget", ctx |-> ctx,
                   args |-> <<lbID, targetIP>>, ignored |-> toLegacyIgnored(opts)] >>,
     ret   |-> reply]

\* ---- ifaceClient: lines 176-192 ----

ifaceClient_Get(c, ctx, id, opts, reply) ==
    [self  |-> c,
     calls |-> << [client |-> c.legacy, method |-> "GetInterface", ctx |-> ctx,
                   args |-> <<id>>, ignored |-> toLegacyIgnored(opts)] >>,
     ret   |-> reply]

ifaceClient_List(c, ctx, opts, reply) ==
    [self  |-> c,
     calls |-> << [client |-> c.legacy, method |-> "ListInterfaces", ctx |-> ctx,
                   args |-> <<>>, ignored |-> toLegacyIgnored(opts)] >>,
     ret   |-> reply]

ifaceClient_Create(c, ctx, iface, opts, reply) ==
    [self  |-> c,
     calls |-> << [client |-> c.legacy, method |-> "CreateInterface", ctx |-> ctx,
                   args |-> <<iface>>, ignored |-> toLegacyIgnored(opts)] >>,
     ret   |-> reply]

ifaceClient_Delete(c, ctx, id, opts, reply) ==
    [self  |-> c,
     calls |-> << [client |-> c.legacy, method |-> "DeleteInterface", ctx |-> ctx,
                   args |-> <<id>>, ignored |-> toLegacyIgnored(opts)] >>,
     ret   |-> reply]

\* mutant: looks the interfaces up while building the handle
ifaceClient_VIP_mutFetches(c) ==
    [self  |-> c,
     calls |-> << [client |-> c.legacy, method |-> "ListInterfaces", ctx |-> "ctx-background",
                   args |-> <<>>, ignored |-> <<>>] >>,
     ret   |-> [type |-> "vipClient", legacy |-> c.legacy]]

ifaceClient_VIP(c) ==
    [self |-> c, calls |-> <<>>, ret |-> [type |-> "vipClient", legacy |-> c.legacy]]

ifaceClient_Prefixes(c) ==
    [self |-> c, calls |-> <<>>, ret |-> [type |-> "ifacePrefixesClient", legacy |-> c.legacy]]

ifaceClient_Firewall(c) ==
    [self |-> c, calls |-> <<>>, ret |-> [type |-> "fwClient", legacy |-> c.legacy]]

\* ---- vipClient: lines 194-204 ----

vipClient_Get(c, ctx, interfaceID, opts, reply) ==
    [self  |-> c,
     calls |-> << [client |-> c.legacy, method |-> "GetVirtualIP", ctx |-> ctx,
                   args |-> <<interfaceID>>, ignored |-> toLegacyIgnored(opts)] >>,
     ret   |-> reply]

vipClient_Create(c, ctx, vip, opts, reply) ==
    [self  |-> c,
     calls |-> << [client |-> c.legacy, method |-> "CreateVirtualIP", ctx |-> ctx,
                   args |-> <<vip>>, ignored |-> toLegacyIgnored(opts)] >>,
     ret   |-> reply]

vipClient_Delete(c, ctx, interfaceID, opts, reply) ==
    [self  |-> c,
     calls |-> << [client |-> c.legacy, method |-> "DeleteVirtualIP", ctx |-> ctx,
                   args |-> <<interfaceID>>, ignored |-> toLegacyIgnored(opts)] >>,
     ret   |-> reply]

\* ---- ifacePrefixesClient: lines 206-216 ----

ifacePrefixesClient_List(c, ctx, interfaceID, opts, reply) ==
    [self  |-> c,
     calls |-> << [client |-> c.legacy, method |-> "ListPrefixes", ctx |-> ctx,
                   args |-> <<interfaceID>>, ignored |-> toLegacyIgnored(opts)] >>,
     ret   |-> reply]

ifacePrefixesClient_Create(c, ctx, prefix, opts, reply) ==
    [self  |-> c,
     calls |-> << [client |-> c.legacy, method |-> "CreatePrefix", ctx |-> ctx,
                   args |-> <<prefix>>, ignored |-> toLegacyIgnored(opts)] >>,
     ret   |-> reply]

ifacePrefixesClient_Delete(c, ctx, interfaceID, prefix, opts, reply) ==
    [self  |-> c,
     calls |-> << [client |-> c.legacy, method |-> "DeletePrefix", ctx |-> ctx,
                   args |-> <<interfaceID, prefix>>, ignored |-> toLegacyIgnored(opts)] >>,
     ret   |-> reply]

\* ---- routeClient: lines 228-238 ----

routeClient_List(c, ctx, vni, opts, reply) ==
    [self  |-> c,
     calls |-> << [client |-> c.legacy, method |-> "ListRoutes", ctx |-> ctx,
                   args |-> <<vni>>, ignored |-> toLegacyIgnored(opts)] >>,
     ret   |-> reply]

routeClient_Create(c, ctx, route, opts, reply) ==
    [self  |-> c,
     calls |-> << [client |-> c.legacy, method |-> "CreateRoute", ctx |-> ctx,
                   args |-> <<route>>, ignored |-> toLegacyIgnored(opts)] >>,
     ret   |-> reply]

\* mutant: forwards under a context of its own
routeClient_Delete_mutOwnContext(c, ctx, vni, prefix, opts, reply) ==
    [self  |-> c,
     calls |-> << [client |-> c.legacy, method |-> "DeleteRoute", ctx |-> "ctx-background",
                   args |-> <<vni, prefix>>, ignored |-> toLegacyIgnored(opts)] >>,
     ret   |-> reply]

routeClient_Delete(c, ctx, vni, prefix, opts, reply) ==
    [self  |-> c,
     calls |-> << [client |-> c.legacy, method |-> "DeleteRoute", ctx |-> ctx,
                   args |-> <<vni, prefix>>, ignored |-> toLegacyIgnored(opts)] >>,
     ret   |-> reply]

\* ---- natClient: lines 256-281 ----

natClient_Get(c, ctx, interfaceID, opts, reply) ==
    [self  |-> c,
     calls |-> << [client |-> c.legacy, method |-> "GetNat", ctx |-> ctx,
                   args |-> <<interfaceID>>, ignored |-> toLegacyIgnored(opts)] >>,
     ret   |-> reply]

natClient_Create(c, ctx, nat, opts, reply) ==
    [self  |-> c,
     calls |-> << [client |-> c.legacy, method |-> "CreateNat", ctx |-> ctx,
                   args |-> <<nat>>, ignored |-> toLegacyIgnored(opts)] >>,
     ret   |-> reply]

natClient_Delete(c, ctx, interfaceID, opts, reply) ==
    [self  |-> c,
     calls |-> << [client |-> c.legacy, method |-> "DeleteNat", ctx |-> ctx,
                   args |-> <<interfaceID>>, ignored |-> toLegacyIgnored(opts)] >>,
     ret   |-> reply]

natClient_ListAny(c, ctx, natIP, opts, reply) ==
    [self  |-> c,
     calls |-> << [client |-> c.legacy, method |-> "ListNats", ctx |-> ctx,
                   args |-> <<natIP, "any">>, ignored |-> toLegacyIgnored(opts)] >>,
     ret   |-> reply]

natClient_ListLocal(c, ctx, natIP, opts, reply) ==
    [self  |-> c,
     calls |-> << [client |-> c.legacy, method |-> "ListLocalNats", ctx |-> ctx,
                   args |-> <<natIP>>, ignored |-> toLegacyIgnored(opts)] >>,
     ret   |-> reply]

natClient_ListNeighbors(c, ctx, natIP, opts, reply) ==
    [self  |-> c,
     calls |-> << [client |-> c.legacy, method |-> "ListNeighborNats", ctx |-> ctx,
                   args |-> <<natIP>>, ignored |-> toLegacyIgnored(opts)] >>,
     ret   |-> reply]

natClient_CreateNeighbor(c, ctx, n, opts, reply) ==
    [self  |-> c,
     calls |-> << [client |-> c.legacy, method |-> "CreateNeighborNat", ctx |-> ctx,
                   args |-> <<n>>, ignored |-> toLegacyIgnored(opts)] >>,
     ret   |-> reply]

natClient_DeleteNeighbor(c, ctx, n, opts, reply) ==
    [self  |-> c,
     calls |-> << [client |-> c.legacy, method |-> "DeleteNeighborNat", ctx |-> ctx,
                   args |-> <<n>>, ignored |-> toLegacyIgnored(opts)] >>,
     ret   |-> reply]

\* ---- fwClient: lines 294-307 ----

fwClient_List(c, ctx, interfaceID, opts, reply) ==
    [self  |-> c,
     calls |-> << [client |-> c.legacy, method |-> "ListFirewallRules", ctx |-> ctx,
                   args |-> <<interfaceID>>, ignored |-> toLegacyIgnored(opts)] >>,
     ret   |-> reply]

fwClient_Get(c, ctx, interfaceID, ruleID, opts, reply) ==
    [self  |-> c,
     calls |-> << [client |-> c.legacy, method |-> "GetFirewallRule", ctx |-> ctx,
                   args |-> <<interfaceID, ruleID>>, ignored |-> toLegacyIgnored(opts)] >>,
     ret   |-> reply]

fwClient_Create(c, ctx, rule, opts, reply) ==
    [self  |-> c,
     calls |-> << [client |-> c.legacy, method |-> "CreateFirewallRule", ctx |-> ctx,
                   args |-> <<rule>>, ignored |-> toLegacyIgnored(opts)] >>,
     ret   |-> reply]

fwClient_Delete(c, ctx, interfaceID, ruleID, opts, reply) ==
    [self  |-> c,
     calls |-> << [client |-> c.legacy, method |-> "DeleteFirewallRule", ctx |-> ctx,
                   args |-> <<interfaceID, ruleID>>, ignored |-> toLegacyIgnored(opts)] >>,
     ret   |-> reply]

\* ---- systemClient: lines 321-337 ----

systemClient_CheckInitialized(c, ctx, opts, reply) ==
    [self  |-> c,
     calls |-> << [client |-> c.legacy, method |-> "CheckInitialized", ctx |-> ctx,
                   args |-> <<>>, ignored |-> toLegacyIgnored(opts)] >>,
     ret   |-> reply]

\* mutant: asks CheckInitialized before it initializes
systemClient_Initialize_mutChecksFirst(c, ctx, opts, reply) ==
    [self  |-> c,
     calls |-> << [client |-> c.legacy, method |-> "CheckInitialized", ctx |-> ctx,
                   args |-> <<>>, ignored |-> toLegacyIgnored(opts)],
                  [client |-> c.legacy, method |-> "Initialize", ctx |-> ctx,
                   args |-> <<>>, ignored |-> toLegacyIgnored(opts)] >>,
     ret   |-> reply]

systemClient_Initialize(c, ctx, opts, reply) ==
    [self  |-> c,
     calls |-> << [client |-> c.legacy, method |-> "Initialize", ctx |-> ctx,
                   args |-> <<>>, ignored |-> toLegacyIgnored(opts)] >>,
     ret   |-> reply]

systemClient_GetVni(c, ctx, vni, vniType, opts, reply) ==
    [self  |-> c,
     calls |-> << [client |-> c.legacy, method |-> "GetVni", ctx |-> ctx,
                   args |-> <<vni, vniType>>, ignored |-> toLegacyIgnored(opts)] >>,
     ret   |-> reply]

systemClient_ResetVni(c, ctx, vni, vniType, opts, reply) ==
    [self  |-> c,
     calls |-> << [client |-> c.legacy, method |-> "ResetVni", ctx |-> ctx,
                   args |-> <<vni, vniType>>, ignored |-> toLegacyIgnored(opts)] >>,
     ret   |-> reply]

systemClient_GetVersion(c, ctx, version, opts, reply) ==
    [self  |-> c,
     calls |-> << [client |-> c.legacy, method |-> "GetVersion", ctx |-> ctx,
                   args |-> <<version>>, ignored |-> toLegacyIgnored(opts)] >>,
     ret   |-> reply]

\* ---- captureClient: lines 349-359 ----

\* mutant: returns the object and drops the error
captureClient_Start_mutDropsError(c, ctx, capture, opts, reply) ==
    [self  |-> c,
     calls |-> << [client |-> c.legacy, method |-> "CaptureStart", ctx |-> ctx,
                   args |-> <<capture>>, ignored |-> toLegacyIgnored(opts)] >>,
     ret   |-> [obj |-> reply.obj, err |-> "nil"]]

captureClient_Start(c, ctx, capture, opts, reply) ==
    [self  |-> c,
     calls |-> << [client |-> c.legacy, method |-> "CaptureStart", ctx |-> ctx,
                   args |-> <<capture>>, ignored |-> toLegacyIgnored(opts)] >>,
     ret   |-> reply]

captureClient_Stop(c, ctx, opts, reply) ==
    [self  |-> c,
     calls |-> << [client |-> c.legacy, method |-> "CaptureStop", ctx |-> ctx,
                   args |-> <<>>, ignored |-> toLegacyIgnored(opts)] >>,
     ret   |-> reply]

captureClient_Status(c, ctx, opts, reply) ==
    [self  |-> c,
     calls |-> << [client |-> c.legacy, method |-> "CaptureStatus", ctx |-> ctx,
                   args |-> <<>>, ignored |-> toLegacyIgnored(opts)] >>,
     ret   |-> reply]

-----------------------------------------------------------------------------
(* The caller: what a facade call leaves behind *)

Constructed(ctor, arg, r) ==
    /\ root' = r
    /\ built' = [ctor |-> ctor, arg |-> arg]
    /\ cur' = NoHandle
    /\ navs' = 0
    /\ step' = [kind |-> "ctor", recv |-> "clientv2", name |-> ctor]
    /\ emitted' = <<>>
    /\ ret' = NoReturn
    /\ UNCHANGED optVars
    /\ UNCHANGED callVars

NavigatedFromRoot(name, e) ==
    /\ navs < MaxNavs
    /\ root' = e.self
    /\ cur' = e.ret
    /\ navs' = navs + 1
    /\ step' = [kind |-> "accessor", recv |-> "rootAdapter", name |-> name]
    /\ emitted' = e.calls
    /\ ret' = NoReturn
    /\ UNCHANGED built
    /\ UNCHANGED optVars
    /\ UNCHANGED callVars

Navigated(recv, name, e) ==
    /\ navs < MaxNavs
    /\ cur' = e.ret
    /\ navs' = navs + 1
    /\ step' = [kind |-> "accessor", recv |-> recv, name |-> name]
    /\ emitted' = e.calls
    /\ ret' = NoReturn
    /\ UNCHANGED <<root, built>>
    /\ UNCHANGED optVars
    /\ UNCHANGED callVars

\* reply is what the legacy client answered to the call
Invoked(recv, name, ctx, params, opts, reply, e) ==
    /\ cur' = e.self
    /\ step' = [kind |-> "op", recv |-> recv, name |-> name, ctx |-> ctx,
                params |-> params, opts |-> opts, reply |-> reply]
    /\ emitted' = e.calls
    /\ ret' = e.ret
    /\ UNCHANGED <<root, built, navs>>
    /\ UNCHANGED optVars
    /\ UNCHANGED callVars

Call_AsV2 == \E c \in LegacyClients : Constructed("AsV2", c, AsV2(c))

Call_NewFromProto == \E rpc \in RpcClients : Constructed("NewFromProto", rpc, NewFromProto(rpc))

Call_rootAdapter_LoadBalancers ==
    /\ root # NoRoot
    /\ NavigatedFromRoot("LoadBalancers", rootAdapter_LoadBalancers(root))

Call_rootAdapter_Interfaces ==
    /\ root # NoRoot
    /\ NavigatedFromRoot("Interfaces", rootAdapter_Interfaces(root))

Call_rootAdapter_Routes ==
    /\ root # NoRoot
    /\ NavigatedFromRoot("Routes", rootAdapter_Routes(root))

Call_rootAdapter_NATs ==
    /\ root # NoRoot
    /\ NavigatedFromRoot("NATs", rootAdapter_NATs(root))

Call_rootAdapter_Firewall ==
    /\ root # NoRoot
    /\ NavigatedFromRoot("Firewall", rootAdapter_Firewall(root))

Call_rootAdapter_System ==
    /\ root # NoRoot
    /\ NavigatedFromRoot("System", rootAdapter_System(root))

Call_rootAdapter_Capture ==
    /\ root # NoRoot
    /\ NavigatedFromRoot("Capture", rootAdapter_Capture(root))

Call_lbClient_Get ==
    /\ cur.type = "lbClient"
    /\ \E ctx \in Contexts, id \in Ids, opts \in CallerOpts, reply \in Replies :
         Invoked("lbClient", "Get", ctx, <<id>>, opts, reply,
                 lbClient_Get(cur, ctx, id, opts, reply))

Call_lbClient_List ==
    /\ cur.type = "lbClient"
    /\ \E ctx \in Contexts, opts \in CallerOpts, reply \in Replies :
         Invoked("lbClient", "List", ctx, <<>>, opts, reply,
                 lbClient_List(cur, ctx, opts, reply))

Call_lbClient_Create ==
    /\ cur.type = "lbClient"
    /\ \E ctx \in Contexts, lb \in Payloads, opts \in CallerOpts, reply \in Replies :
         Invoked("lbClient", "Create", ctx, <<lb>>, opts, reply,
                 lbClient_Create(cur, ctx, lb, opts, reply))

Call_lbClient_Delete ==
    /\ cur.type = "lbClient"
    /\ \E ctx \in Contexts, id \in Ids, opts \in CallerOpts, reply \in Replies :
         Invoked("lbClient", "Delete", ctx, <<id>>, opts, reply,
                 lbClient_Delete(cur, ctx, id, opts, reply))

Call_lbClient_Prefixes ==
    /\ cur.type = "lbClient"
    /\ Navigated("lbClient", "Prefixes", lbClient_Prefixes(cur))

Call_lbClient_Targets ==
    /\ cur.type = "lbClient"
    /\ Navigated("lbClient", "Targets", lbClient_Targets(cur))

Call_lbPrefixesClient_List ==
    /\ cur.type = "lbPrefixesClient"
    /\ \E ctx \in Contexts, interfaceID \in Ids, opts \in CallerOpts, reply \in Replies :
         Invoked("lbPrefixesClient", "List", ctx, <<interfaceID>>, opts, reply,
                 lbPrefixesClient_List(cur, ctx, interfaceID, opts, reply))

Call_lbPrefixesClient_Create ==
    /\ cur.type = "lbPrefixesClient"
    /\ \E ctx \in Contexts, prefix \in Payloads, opts \in CallerOpts, reply \in Replies :
         Invoked("lbPrefixesClient", "Create", ctx, <<prefix>>, opts, reply,
                 lbPrefixesClient_Create(cur, ctx, prefix, opts, reply))

Call_lbPrefixesClient_Delete ==
    /\ cur.type = "lbPrefixesClient"
    /\ \E ctx \in Contexts, interfaceID \in Ids, prefix \in Prefixes, opts \in CallerOpts, reply \in Replies :
         Invoked("lbPrefixesClient", "Delete", ctx, <<interfaceID, prefix>>, opts, reply,
                 lbPrefixesClient_Delete(cur, ctx, interfaceID, prefix, opts, reply))

Call_lbTargetsClient_List ==
    /\ cur.type = "lbTargetsClient"
    /\ \E ctx \in Contexts, loadBalancerID \in Ids, opts \in CallerOpts, reply \in Replies :
         Invoked("lbTargetsClient", "List", ctx, <<loadBalancerID>>, opts, reply,
                 lbTargetsClient_List(cur, ctx, loadBalancerID, opts, reply))

Call_lbTargetsClient_Create ==
    /\ cur.type = "lbTargetsClient"
    /\ \E ctx \in Contexts, target \in Payloads, opts \in CallerOpts, reply \in Replies :
         Invoked("lbTargetsClient", "Create", ctx, <<target>>, opts, reply,
                 lbTargetsClient_Create(cur, ctx, target, opts, reply))

Call_lbTargetsClient_Delete ==
    /\ cur.type = "lbTargetsClient"
    /\ \E ctx \in Contexts, lbID \in Ids, targetIP \in Addrs, opts \in CallerOpts, reply \in Replies :
         Invoked("lbTargetsClient", "Delete", ctx, <<lbID, targetIP>>, opts, reply,
                 lbTargetsClient_Delete(cur, ctx, lbID, targetIP, opts, reply))

Call_ifaceClient_Get ==
    /\ cur.type = "ifaceClient"
    /\ \E ctx \in Contexts, id \in Ids, opts \in CallerOpts, reply \in Replies :
         Invoked("ifaceClient", "Get", ctx, <<id>>, opts, reply,
                 ifaceClient_Get(cur, ctx, id, opts, reply))

Call_ifaceClient_List ==
    /\ cur.type = "ifaceClient"
    /\ \E ctx \in Contexts, opts \in CallerOpts, reply \in Replies :
         Invoked("ifaceClient", "List", ctx, <<>>, opts, reply,
                 ifaceClient_List(cur, ctx, opts, reply))

Call_ifaceClient_Create ==
    /\ cur.type = "ifaceClient"
    /\ \E ctx \in Contexts, iface \in Payloads, opts \in CallerOpts, reply \in Replies :
         Invoked("ifaceClient", "Create", ctx, <<iface>>, opts, reply,
                 ifaceClient_Create(cur, ctx, iface, opts, reply))

Call_ifaceClient_Delete ==
    /\ cur.type = "ifaceClient"
    /\ \E ctx \in Contexts, id \in Ids, opts \in CallerOpts, reply \in Replies :
         Invoked("ifaceClient", "Delete", ctx, <<id>>, opts, reply,
                 ifaceClient_Delete(cur, ctx, id, opts, reply))

Call_ifaceClient_VIP ==
    /\ cur.type = "ifaceClient"
    /\ Navigated("ifaceClient", "VIP", ifaceClient_VIP(cur))

Call_ifaceClient_Prefixes ==
    /\ cur.type = "ifaceClient"
    /\ Navigated("ifaceClient", "Prefixes", ifaceClient_Prefixes(cur))

Call_ifaceClient_Firewall ==
    /\ cur.type = "ifaceClient"
    /\ Navigated("ifaceClient", "Firewall", ifaceClient_Firewall(cur))

Call_vipClient_Get ==
    /\ cur.type = "vipClient"
    /\ \E ctx \in Contexts, interfaceID \in Ids, opts \in CallerOpts, reply \in Replies :
         Invoked("vipClient", "Get", ctx, <<interfaceID>>, opts, reply,
                 vipClient_Get(cur, ctx, interfaceID, opts, reply))

Call_vipClient_Create ==
    /\ cur.type = "vipClient"
    /\ \E ctx \in Contexts, vip \in Payloads, opts \in CallerOpts, reply \in Replies :
         Invoked("vipClient", "Create", ctx, <<vip>>, opts, reply,
                 vipClient_Create(cur, ctx, vip, opts, reply))

Call_vipClient_Delete ==
    /\ cur.type = "vipClient"
    /\ \E ctx \in Contexts, interfaceID \in Ids, opts \in CallerOpts, reply \in Replies :
         Invoked("vipClient", "Delete", ctx, <<interfaceID>>, opts, reply,
                 vipClient_Delete(cur, ctx, interfaceID, opts, reply))

Call_ifacePrefixesClient_List ==
    /\ cur.type = "ifacePrefixesClient"
    /\ \E ctx \in Contexts, interfaceID \in Ids, opts \in CallerOpts, reply \in Replies :
         Invoked("ifacePrefixesClient", "List", ctx, <<interfaceID>>, opts, reply,
                 ifacePrefixesClient_List(cur, ctx, interfaceID, opts, reply))

Call_ifacePrefixesClient_Create ==
    /\ cur.type = "ifacePrefixesClient"
    /\ \E ctx \in Contexts, prefix \in Payloads, opts \in CallerOpts, reply \in Replies :
         Invoked("ifacePrefixesClient", "Create", ctx, <<prefix>>, opts, reply,
                 ifacePrefixesClient_Create(cur, ctx, prefix, opts, reply))

Call_ifacePrefixesClient_Delete ==
    /\ cur.type = "ifacePrefixesClient"
    /\ \E ctx \in Contexts, interfaceID \in Ids, prefix \in Prefixes, opts \in CallerOpts, reply \in Replies :
         Invoked("ifacePrefixesClient", "Delete", ctx, <<interfaceID, prefix>>, opts, reply,
                 ifacePrefixesClient_Delete(cur, ctx, interfaceID, prefix, opts, reply))

Call_routeClient_List ==
    /\ cur.type = "routeClient"
    /\ \E ctx \in Contexts, vni \in Vnis, opts \in CallerOpts, reply \in Replies :
         Invoked("routeClient", "List", ctx, <<vni>>, opts, reply,
                 routeClient_List(cur, ctx, vni, opts, reply))

Call_routeClient_Create ==
    /\ cur.type = "routeClient"
    /\ \E ctx \in Contexts, route \in Payloads, opts \in CallerOpts, reply \in Replies :
         Invoked("routeClient", "Create", ctx, <<route>>, opts, reply,
                 routeClient_Create(cur, ctx, route, opts, reply))

Call_routeClient_Delete ==
    /\ cur.type = "routeClient"
    /\ \E ctx \in Contexts, vni \in Vnis, prefix \in Prefixes, opts \in CallerOpts, reply \in Replies :
         Invoked("routeClient", "Delete", ctx, <<vni, prefix>>, opts, reply,
                 routeClient_Delete(cur, ctx, vni, prefix, opts, reply))

Call_natClient_Get ==
    /\ cur.type = "natClient"
    /\ \E ctx \in Contexts, interfaceID \in Ids, opts \in CallerOpts, reply \in Replies :
         Invoked("natClient", "Get", ctx, <<interfaceID>>, opts, reply,
                 natClient_Get(cur, ctx, interfaceID, opts, reply))

Call_natClient_Create ==
    /\ cur.type = "natClient"
    /\ \E ctx \in Contexts, nat \in Payloads, opts \in CallerOpts, reply \in Replies :
         Invoked("natClient", "Create", ctx, <<nat>>, opts, reply,
                 natClient_Create(cur, ctx, nat, opts, reply))

Call_natClient_Delete ==
    /\ cur.type = "natClient"
    /\ \E ctx \in Contexts, interfaceID \in Ids, opts \in CallerOpts, reply \in Replies :
         Invoked("natClient", "Delete", ctx, <<interfaceID>>, opts, reply,
                 natClient_Delete(cur, ctx, interfaceID, opts, reply))

Call_natClient_ListAny ==
    /\ cur.type = "natClient"
    /\ \E ctx \in Contexts, natIP \in Addrs, opts \in CallerOpts, reply \in Replies :
         Invoked("natClient", "ListAny", ctx, <<natIP>>, opts, reply,
                 natClient_ListAny(cur, ctx, natIP, opts, reply))

Call_natClient_ListLocal ==
    /\ cur.type = "natClient"
    /\ \E ctx \in Contexts, natIP \in Addrs, opts \in CallerOpts, reply \in Replies :
         Invoked("natClient", "ListLocal", ctx, <<natIP>>, opts, reply,
                 natClient_ListLocal(cur, ctx, natIP, opts, reply))

Call_natClient_ListNeighbors ==
    /\ cur.type = "natClient"
    /\ \E ctx \in Contexts, natIP \in Addrs, opts \in CallerOpts, reply \in Replies :
         Invoked("natClient", "ListNeighbors", ctx, <<natIP>>, opts, reply,
                 natClient_ListNeighbors(cur, ctx, natIP, opts, reply))

Call_natClient_CreateNeighbor ==
    /\ cur.type = "natClient"
    /\ \E ctx \in Contexts, n \in Payloads, opts \in CallerOpts, reply \in Replies :
         Invoked("natClient", "CreateNeighbor", ctx, <<n>>, opts, reply,
                 natClient_CreateNeighbor(cur, ctx, n, opts, reply))

Call_natClient_DeleteNeighbor ==
    /\ cur.type = "natClient"
    /\ \E ctx \in Contexts, n \in Payloads, opts \in CallerOpts, reply \in Replies :
         Invoked("natClient", "DeleteNeighbor", ctx, <<n>>, opts, reply,
                 natClient_DeleteNeighbor(cur, ctx, n, opts, reply))

Call_fwClient_List ==
    /\ cur.type = "fwClient"
    /\ \E ctx \in Contexts, interfaceID \in Ids, opts \in CallerOpts, reply \in Replies :
         Invoked("fwClient", "List", ctx, <<interfaceID>>, opts, reply,
                 fwClient_List(cur, ctx, interfaceID, opts, reply))

Call_fwClient_Get ==
    /\ cur.type = "fwClient"
    /\ \E ctx \in Contexts, interfaceID \in Ids, ruleID \in Ids, opts \in CallerOpts, reply \in Replies :
         Invoked("fwClient", "Get", ctx, <<interfaceID, ruleID>>, opts, reply,
                 fwClient_Get(cur, ctx, interfaceID, ruleID, opts, reply))

Call_fwClient_Create ==
    /\ cur.type = "fwClient"
    /\ \E ctx \in Contexts, rule \in Payloads, opts \in CallerOpts, reply \in Replies :
         Invoked("fwClient", "Create", ctx, <<rule>>, opts, reply,
                 fwClient_Create(cur, ctx, rule, opts, reply))

Call_fwClient_Delete ==
    /\ cur.type = "fwClient"
    /\ \E ctx \in Contexts, interfaceID \in Ids, ruleID \in Ids, opts \in CallerOpts, reply \in Replies :
         Invoked("fwClient", "Delete", ctx, <<interfaceID, ruleID>>, opts, reply,
                 fwClient_Delete(cur, ctx, interfaceID, ruleID, opts, reply))

Call_systemClient_CheckInitialized ==
    /\ cur.type = "systemClient"
    /\ \E ctx \in Contexts, opts \in CallerOpts, reply \in Replies :
         Invoked("systemClient", "CheckInitialized", ctx, <<>>, opts, reply,
                 systemClient_CheckInitialized(cur, ctx, opts, reply))

Call_systemClient_Initialize ==
    /\ cur.type = "systemClient"
    /\ \E ctx \in Contexts, opts \in CallerOpts, reply \in Replies :
         Invoked("systemClient", "Initialize", ctx, <<>>, opts, reply,
                 systemClient_Initialize(cur, ctx, opts, reply))

Call_systemClient_GetVni ==
    /\ cur.type = "systemClient"
    /\ \E ctx \in Contexts, vni \in Vnis, vniType \in VniTypes, opts \in CallerOpts, reply \in Replies :
         Invoked("systemClient", "GetVni", ctx, <<vni, vniType>>, opts, reply,
                 systemClient_GetVni(cur, ctx, vni, vniType, opts, reply))

Call_systemClient_ResetVni ==
    /\ cur.type = "systemClient"
    /\ \E ctx \in Contexts, vni \in Vnis, vniType \in VniTypes, opts \in CallerOpts, reply \in Replies :
         Invoked("systemClient", "ResetVni", ctx, <<vni, vniType>>, opts, reply,
                 systemClient_ResetVni(cur, ctx, vni, vniType, opts, reply))

Call_systemClient_GetVersion ==
    /\ cur.type = "systemClient"
    /\ \E ctx \in Contexts, version \in Payloads, opts \in CallerOpts, reply \in Replies :
         Invoked("systemClient", "GetVersion", ctx, <<version>>, opts, reply,
                 systemClient_GetVersion(cur, ctx, version, opts, reply))

Call_captureClient_Start ==
    /\ cur.type = "captureClient"
    /\ \E ctx \in Contexts, capture \in Payloads, opts \in CallerOpts, reply \in Replies :
         Invoked("captureClient", "Start", ctx, <<capture>>, opts, reply,
                 captureClient_Start(cur, ctx, capture, opts, reply))

Call_captureClient_Stop ==
    /\ cur.type = "captureClient"
    /\ \E ctx \in Contexts, opts \in CallerOpts, reply \in Replies :
         Invoked("captureClient", "Stop", ctx, <<>>, opts, reply,
                 captureClient_Stop(cur, ctx, opts, reply))

Call_captureClient_Status ==
    /\ cur.type = "captureClient"
    /\ \E ctx \in Contexts, opts \in CallerOpts, reply \in Replies :
         Invoked("captureClient", "Status", ctx, <<>>, opts, reply,
                 captureClient_Status(cur, ctx, opts, reply))

-----------------------------------------------------------------------------
(* Spec *)

OptsIdle ==
    /\ optsIn = <<>>
    /\ idx = 1
    /\ acc = ZeroCallOptions
    /\ out = <<>>
    /\ pc = "idle"

Init ==
    /\ OptsIdle
    /\ FacadeIdle
    /\ CallsIdle
    /\ budget = [g \in Callers |-> 0]

Next ==
    \/ Call_AsV2
    \/ Call_NewFromProto
    \/ Call_rootAdapter_LoadBalancers
    \/ Call_rootAdapter_Interfaces
    \/ Call_rootAdapter_Routes
    \/ Call_rootAdapter_NATs
    \/ Call_rootAdapter_Firewall
    \/ Call_rootAdapter_System
    \/ Call_rootAdapter_Capture
    \/ Call_lbClient_Get
    \/ Call_lbClient_List
    \/ Call_lbClient_Create
    \/ Call_lbClient_Delete
    \/ Call_lbClient_Prefixes
    \/ Call_lbClient_Targets
    \/ Call_lbPrefixesClient_List
    \/ Call_lbPrefixesClient_Create
    \/ Call_lbPrefixesClient_Delete
    \/ Call_lbTargetsClient_List
    \/ Call_lbTargetsClient_Create
    \/ Call_lbTargetsClient_Delete
    \/ Call_ifaceClient_Get
    \/ Call_ifaceClient_List
    \/ Call_ifaceClient_Create
    \/ Call_ifaceClient_Delete
    \/ Call_ifaceClient_VIP
    \/ Call_ifaceClient_Prefixes
    \/ Call_ifaceClient_Firewall
    \/ Call_vipClient_Get
    \/ Call_vipClient_Create
    \/ Call_vipClient_Delete
    \/ Call_ifacePrefixesClient_List
    \/ Call_ifacePrefixesClient_Create
    \/ Call_ifacePrefixesClient_Delete
    \/ Call_routeClient_List
    \/ Call_routeClient_Create
    \/ Call_routeClient_Delete
    \/ Call_natClient_Get
    \/ Call_natClient_Create
    \/ Call_natClient_Delete
    \/ Call_natClient_ListAny
    \/ Call_natClient_ListLocal
    \/ Call_natClient_ListNeighbors
    \/ Call_natClient_CreateNeighbor
    \/ Call_natClient_DeleteNeighbor
    \/ Call_fwClient_List
    \/ Call_fwClient_Get
    \/ Call_fwClient_Create
    \/ Call_fwClient_Delete
    \/ Call_systemClient_CheckInitialized
    \/ Call_systemClient_Initialize
    \/ Call_systemClient_GetVni
    \/ Call_systemClient_ResetVni
    \/ Call_systemClient_GetVersion
    \/ Call_captureClient_Start
    \/ Call_captureClient_Stop
    \/ Call_captureClient_Status

Spec == Init /\ [][Next]_vars

-----------------------------------------------------------------------------
(* Properties of the call-option mechanism, checked under SpecOpts *)

\* the codes one option value contributes, and those a list contributes
Contribution(opt) == IF opt = NilOption THEN <<>> ELSE opt.codes

RECURSIVE Contributed(_)
Contributed(opts) ==
    IF opts = <<>> THEN <<>>
    ELSE Contribution(Head(opts)) \o Contributed(Tail(opts))

IsSet(opt) == opt # NilOption
WithoutNil(opts) == SelectSeq(opts, IsSet)

\* C1: at every point of buildCallOptions' loop the accumulated codes are
\* the concatenation, in application order and with duplicates kept, of the
\* codes contributed by the options applied so far; once the loop is over
\* that is the concatenation over the whole list, empty when no option
\* contributed a code.
C1_AccumulatesInOrder ==
    /\ acc.ignoredCodes = Contributed(SubSeq(optsIn, 1, idx - 1))
    /\ pc \in {"built", "done"} => acc.ignoredCodes = Contributed(optsIn)

C1_Witness ==
    /\ pc = "built"
    /\ optsIn = << WithIgnoredCodes(<<1001>>), WithIgnoredCodes(<<1002, 1003>>) >>
    /\ acc.ignoredCodes = <<1001, 1002, 1003>>

\* C2: when the options contributed no code (no option, nil options only,
\* options without codes), toLegacyIgnored returns no group at all, and in
\* particular not one empty group.
C2_EmptyIsOmitted ==
    (pc = "done" /\ Contributed(optsIn) = <<>>) =>
        (out[1] = <<>> /\ out[1] # << <<>> >>)

C2_Witness ==
    /\ pc = "done"
    /\ optsIn = << NilOption, WithIgnoredCodes(<<>>) >>
    /\ out[1] = <<>>

\* C3: when the options contributed at least one code, toLegacyIgnored
\* returns exactly one group holding all of them in accumulation order; it
\* never returns more than one group.
C3_OneGroup ==
    pc = "done" =>
        /\ Len(out[1]) <= 1
        /\ Contributed(optsIn) # <<>> => out[1] = << Contributed(optsIn) >>

C3_Witness ==
    /\ pc = "done"
    /\ Len(optsIn) = 3
    /\ out[1] = << <<1001, 1002, 1003, 1001>> >>

\* C7: a nil option is a no-op wherever it stands: what the loop has
\* accumulated equals what buildCallOptions yields for the options applied
\* so far with the nil ones removed, and a loop step on a nil option leaves
\* the accumulated codes as they were.
C7_NilIsNoOp ==
    /\ acc = buildCallOptions(WithoutNil(SubSeq(optsIn, 1, idx - 1)))
    /\ pc \in {"built", "done"} => acc = buildCallOptions(WithoutNil(optsIn))
    /\ (pc = "loop" /\ idx <= Len(optsIn) /\ optsIn[idx] = NilOption) =>
           LoopBody(optsIn[idx], acc) = acc

C7_Witness ==
    /\ pc = "built"
    /\ optsIn = << WithIgnoredCodes(<<1001>>), NilOption, WithIgnoredCodes(<<1002, 1003>>) >>
    /\ acc.ignoredCodes = <<1001, 1002, 1003>>

-----------------------------------------------------------------------------
(* Properties of the facade, checked under Spec *)

IsOp == step.kind = "op"

\* the operations the handle interfaces declare (lines 86-347)
FacadeOps ==
    { <<"lbClient", "Get">>,
      <<"lbClient", "List">>,
      <<"lbClient", "Create">>,
      <<"lbClient", "Delete">>,
      <<"lbPrefixesClient", "List">>,
      <<"lbPrefixesClient", "Create">>,
      <<"lbPrefixesClient", "Delete">>,
      <<"lbTargetsClient", "List">>,
      <<"lbTargetsClient", "Create">>,
      <<"lbTargetsClient", "Delete">>,
      <<"ifaceClient", "Get">>,
      <<"ifaceClient", "List">>,
      <<"ifaceClient", "Create">>,
      <<"ifaceClient", "Delete">>,
      <<"vipClient", "Get">>,
      <<"vipClient", "Create">>,
      <<"vipClient", "Delete">>,
      <<"ifacePrefixesClient", "List">>,
      <<"ifacePrefixesClient", "Create">>,
      <<"ifacePrefixesClient", "Delete">>,
      <<"routeClient", "List">>,
      <<"routeClient", "Create">>,
      <<"routeClient", "Delete">>,
      <<"natClient", "Get">>,
      <<"natClient", "Create">>,
      <<"natClient", "Delete">>,
      <<"natClient", "ListAny">>,
      <<"natClient", "ListLocal">>,
      <<"natClient", "ListNeighbors">>,
      <<"natClient", "CreateNeighbor">>,
      <<"natClient", "DeleteNeighbor">>,
      <<"fwClient", "List">>,
      <<"fwClient", "Get">>,
      <<"fwClient", "Create">>,
      <<"fwClient", "Delete">>,
      <<"systemClient", "CheckInitialized">>,
      <<"systemClient", "Initialize">>,
      <<"systemClient", "GetVni">>,
      <<"systemClient", "ResetVni">>,
      <<"systemClient", "GetVersion">>,
      <<"captureClient", "Start">>,
      <<"captureClient", "Stop">>,
      <<"captureClient", "Status">> }

\* the legacy method each operation stands for
CorrespondingMethod(recv, name) ==
    CASE recv = "lbClient" /\ name = "Get" -> "GetLoadBalancer"
      [] recv = "lbClient" /\ name = "List" -> "ListLoadBalancers"
      [] recv = "lbClient" /\ name = "Create" -> "CreateLoadBalancer"
      [] recv = "lbClient" /\ name = "Delete" -> "DeleteLoadBalancer"
      [] recv = "lbPrefixesClient" /\ name = "List" -> "ListLoadBalancerPrefixes"
      [] recv = "lbPrefixesClient" /\ name = "Create" -> "CreateLoadBalancerPrefix"
      [] recv = "lbPrefixesClient" /\ name = "Delete" -> "DeleteLoadBalancerPrefix"
      [] recv = "lbTargetsClient" /\ name = "List" -> "ListLoadBalancerTargets"
      [] recv = "lbTargetsClient" /\ name = "Create" -> "CreateLoadBalancerTarget"
      [] recv = "lbTargetsClient" /\ name = "Delete" -> "DeleteLoadBalancerTarget"
      [] recv = "ifaceClient" /\ name = "Get" -> "GetInterface"
      [] recv = "ifaceClient" /\ name = "List" -> "ListInterfaces"
      [] recv = "ifaceClient" /\ name = "Create" -> "CreateInterface"
      [] recv = "ifaceClient" /\ name = "Delete" -> "DeleteInterface"
      [] recv = "vipClient" /\ name = "Get" -> "GetVirtualIP"
      [] recv = "vipClient" /\ name = "Create" -> "CreateVirtualIP"
      [] recv = "vipClient" /\ name = "Delete" -> "DeleteVirtualIP"
      [] recv = "ifacePrefixesClient" /\ name = "List" -> "ListPrefixes"
      [] recv = "ifacePrefixesClient" /\ name = "Create" -> "CreatePrefix"
      [] recv = "ifacePrefixesClient" /\ name = "Delete" -> "DeletePrefix"
      [] recv = "routeClient" /\ name = "List" -> "ListRoutes"
      [] recv = "routeClient" /\ name = "Create" -> "CreateRoute"
      [] recv = "routeClient" /\ name = "Delete" -> "DeleteRoute"
      [] recv = "natClient" /\ name = "Get" -> "GetNat"
      [] recv = "natClient" /\ name = "Create" -> "CreateNat"
      [] recv = "natClient" /\ name = "Delete" -> "DeleteNat"
      [] recv = "natClient" /\ name = "ListAny" -> "ListNats"
      [] recv = "natClient" /\ name = "ListLocal" -> "ListLocalNats"
      [] recv = "natClient" /\ name = "ListNeighbors" -> "ListNeighborNats"
      [] recv = "natClient" /\ name = "CreateNeighbor" -> "CreateNeighborNat"
      [] recv = "natClient" /\ name = "DeleteNeighbor" -> "DeleteNeighborNat"
      [] recv = "fwClient" /\ name = "List" -> "ListFirewallRules"
      [] recv = "fwClient" /\ name = "Get" -> "GetFirewallRule"
      [] recv = "fwClient" /\ name = "Create" -> "CreateFirewallRule"
      [] recv = "fwClient" /\ name = "Delete" -> "DeleteFirewallRule"
      [] recv = "systemClient" /\ name = "CheckInitialized" -> "CheckInitialized"
      [] recv = "systemClient" /\ name = "Initialize" -> "Initialize"
      [] recv = "systemClient" /\ name = "GetVni" -> "GetVni"
      [] recv = "systemClient" /\ name = "ResetVni" -> "ResetVni"
      [] recv = "systemClient" /\ name = "GetVersion" -> "GetVersion"
      [] recv = "captureClient" /\ name = "Start" -> "CaptureStart"
      [] recv = "captureClient" /\ name = "Stop" -> "CaptureStop"
      [] recv = "captureClient" /\ name = "Status" -> "CaptureStatus"

\* each operation called once on a handle, to read off what it forwards to
Probe(recv, name) ==
    LET h == [type |-> recv, legacy |-> [client |-> "legacy-1"]]
        r == [obj |-> "object", err |-> "nil"]
    IN  CASE recv = "lbClient" /\ name = "Get" ->
             lbClient_Get(h, "ctx-todo", "iface-1", <<>>, r)
          [] recv = "lbClient" /\ name = "List" ->
             lbClient_List(h, "ctx-todo", <<>>, r)
          [] recv = "lbClient" /\ name = "Create" ->
             lbClient_Create(h, "ctx-todo", "obj-a", <<>>, r)
          [] recv = "lbClient" /\ name = "Delete" ->
             lbClient_Delete(h, "ctx-todo", "iface-1", <<>>, r)
          [] recv = "lbPrefixesClient" /\ name = "List" ->
             lbPrefixesClient_List(h, "ctx-todo", "iface-1", <<>>, r)
          [] recv = "lbPrefixesClient" /\ name = "Create" ->
             lbPrefixesClient_Create(h, "ctx-todo", "obj-a", <<>>, r)
          [] recv = "lbPrefixesClient" /\ name = "Delete" ->
             lbPrefixesClient_Delete(h, "ctx-todo", "iface-1", "pfx-a", <<>>, r)
          [] recv = "lbTargetsClient" /\ name = "List" ->
             lbTargetsClient_List(h, "ctx-todo", "iface-1", <<>>, r)
          [] recv = "lbTargetsClient" /\ name = "Create" ->
             lbTargetsClient_Create(h, "ctx-todo", "obj-a", <<>>, r)
          [] recv = "lbTargetsClient" /\ name = "Delete" ->
             lbTargetsClient_Delete(h, "ctx-todo", "iface-1", "ip-a", <<>>, r)
          [] recv = "ifaceClient" /\ name = "Get" ->
             ifaceClient_Get(h, "ctx-todo", "iface-1", <<>>, r)
          [] recv = "ifaceClient" /\ name = "List" ->
             ifaceClient_List(h, "ctx-todo", <<>>, r)
          [] recv = "ifaceClient" /\ name = "Create" ->
             ifaceClient_Create(h, "ctx-todo", "obj-a", <<>>, r)
          [] recv = "ifaceClient" /\ name = "Delete" ->
             ifaceClient_Delete(h, "ctx-todo", "iface-1", <<>>, r)
          [] recv = "vipClient" /\ name = "Get" ->
             vipClient_Get(h, "ctx-todo", "iface-1", <<>>, r)
          [] recv = "vipClient" /\ name = "Create" ->
             vipClient_Create(h, "ctx-todo", "obj-a", <<>>, r)
          [] recv = "vipClient" /\ name = "Delete" ->
             vipClient_Delete(h, "ctx-todo", "iface-1", <<>>, r)
          [] recv = "ifacePrefixesClient" /\ name = "List" ->
             ifacePrefixesClient_List(h, "ctx-todo", "iface-1", <<>>, r)
          [] recv = "ifacePrefixesClient" /\ name = "Create" ->
             ifacePrefixesClient_Create(h, "ctx-todo", "obj-a", <<>>, r)
          [] recv = "ifacePrefixesClient" /\ name = "Delete" ->
             ifacePrefixesClient_Delete(h, "ctx-todo", "iface-1", "pfx-a", <<>>, r)
          [] recv = "routeClient" /\ name = "List" ->
             routeClient_List(h, "ctx-todo", 42, <<>>, r)
          [] recv = "routeClient" /\ name = "Create" ->
             routeClient_Create(h, "ctx-todo", "obj-a", <<>>, r)
          [] recv = "routeClient" /\ name = "Delete" ->
             routeClient_Delete(h, "ctx-todo", 42, "pfx-a", <<>>, r)
          [] recv = "natClient" /\ name = "Get" ->
             natClient_Get(h, "ctx-todo", "iface-1", <<>>, r)
          [] recv = "natClient" /\ name = "Create" ->
             natClient_Create(h, "ctx-todo", "obj-a", <<>>, r)
          [] recv = "natClient" /\ name = "Delete" ->
             natClient_Delete(h, "ctx-todo", "iface-1", <<>>, r)
          [] recv = "natClient" /\ name = "ListAny" ->
             natClient_ListAny(h, "ctx-todo", "ip-a", <<>>, r)
          [] recv = "natClient" /\ name = "ListLocal" ->
             natClient_ListLocal(h, "ctx-todo", "ip-a", <<>>, r)
          [] recv = "natClient" /\ name = "ListNeighbors" ->
             natClient_ListNeighbors(h, "ctx-todo", "ip-a", <<>>, r)
          [] recv = "natClient" /\ name = "CreateNeighbor" ->
             natClient_CreateNeighbor(h, "ctx-todo", "obj-a", <<>>, r)
          [] recv = "natClient" /\ name = "DeleteNeighbor" ->
             natClient_DeleteNeighbor(h, "ctx-todo", "obj-a", <<>>, r)
          [] recv = "fwClient" /\ name = "List" ->
             fwClient_List(h, "ctx-todo", "iface-1", <<>>, r)
          [] recv = "fwClient" /\ name = "Get" ->
             fwClient_Get(h, "ctx-todo", "iface-1", "iface-1", <<>>, r)
          [] recv = "fwClient" /\ name = "Create" ->
             fwClient_Create(h, "ctx-todo", "obj-a", <<>>, r)
          [] recv = "fwClient" /\ name = "Delete" ->
             fwClient_Delete(h, "ctx-todo", "iface-1", "iface-1", <<>>, r)
          [] recv = "systemClient" /\ name = "CheckInitialized" ->
             systemClient_CheckInitialized(h, "ctx-todo", <<>>, r)
          [] recv = "systemClient" /\ name = "Initialize" ->
             systemClient_Initialize(h, "ctx-todo", <<>>, r)
          [] recv = "systemClient" /\ name = "GetVni" ->
             systemClient_GetVni(h, "ctx-todo", 42, 1, <<>>, r)
          [] recv = "systemClient" /\ name = "ResetVni" ->
             systemClient_ResetVni(h, "ctx-todo", 42, 1, <<>>, r)
          [] recv = "systemClient" /\ name = "GetVersion" ->
             systemClient_GetVersion(h, "ctx-todo", "obj-a", <<>>, r)
          [] recv = "captureClient" /\ name = "Start" ->
             captureClient_Start(h, "ctx-todo", "obj-a", <<>>, r)
          [] recv = "captureClient" /\ name = "Stop" ->
             captureClient_Stop(h, "ctx-todo", <<>>, r)
          [] recv = "captureClient" /\ name = "Status" ->
             captureClient_Status(h, "ctx-todo", <<>>, r)

WiredTo(recv, name) ==
    LET e == Probe(recv, name) IN { e.calls[k].method : k \in 1..Len(e.calls) }

\* the variadic groups a list of options stands for
ExpectedGroups(opts) ==
    IF Contributed(opts) = <<>> THEN <<>> ELSE << Contributed(opts) >>

\* C4: an operation makes exactly one legacy call, on its handle's legacy
\* client, to the legacy method the operation stands for.
C4_ExactlyOneCall ==
    IsOp =>
        /\ Len(emitted) = 1
        /\ emitted[1].client = cur.legacy
        /\ emitted[1].method = CorrespondingMethod(step.recv, step.name)

C4_Witness ==
    /\ IsOp
    /\ step.recv = "vipClient"
    /\ step.name = "Delete"
    /\ Len(emitted) = 1
    /\ emitted[1].method = "DeleteVirtualIP"

\* C5 as stated: every operation, NATs.ListAny included, hands the legacy
\* method the caller's context and exactly the caller's parameters.
C5_VerbatimEveryOperation ==
    IsOp =>
        /\ Len(emitted) = 1
        /\ emitted[1].ctx = step.ctx
        /\ emitted[1].args = step.params
        /\ emitted[1].ignored = ExpectedGroups(step.opts)

\* C5 (amended): every operation hands the legacy method the caller's
\* context and the caller's parameters in order, followed only by the
\* transport form of the options; NATs.ListAny alone adds one argument of
\* its own, the constant NAT type "any", after natIP.
C5_VerbatimExceptListAny ==
    IsOp =>
        /\ Len(emitted) = 1
        /\ emitted[1].ctx = step.ctx
        /\ emitted[1].args =
              IF step.recv = "natClient" /\ step.name = "ListAny"
              THEN Append(step.params, "any")
              ELSE step.params
        /\ emitted[1].ignored = ExpectedGroups(step.opts)

C5_Witness ==
    /\ IsOp
    /\ step.recv = "natClient"
    /\ step.name = "ListAny"
    /\ step.params = << "ip-a" >>
    /\ emitted[1].args = << "ip-a", "any" >>

\* C6: what an operation returns is the (object, error) pair its one legacy
\* call answered, whatever that answer was.
C6_ReturnsLegacyReply ==
    IsOp =>
        /\ Len(emitted) = 1
        /\ ret = step.reply

C6_Witness ==
    /\ IsOp
    /\ step.recv = "captureClient"
    /\ step.name = "Start"
    /\ step.reply = [obj |-> "object+status", err |-> "status error"]
    /\ ret = [obj |-> "object+status", err |-> "status error"]

\* the handle of a type reached from r by the shortest chain of accessors
SingleNavigation(r, type) ==
    CASE type = "lbClient"            -> rootAdapter_LoadBalancers(r).ret
      [] type = "ifaceClient"         -> rootAdapter_Interfaces(r).ret
      [] type = "routeClient"         -> rootAdapter_Routes(r).ret
      [] type = "natClient"           -> rootAdapter_NATs(r).ret
      [] type = "fwClient"            -> rootAdapter_Firewall(r).ret
      [] type = "systemClient"        -> rootAdapter_System(r).ret
      [] type = "captureClient"       -> rootAdapter_Capture(r).ret
      [] type = "lbPrefixesClient"    -> lbClient_Prefixes(rootAdapter_LoadBalancers(r).ret).ret
      [] type = "lbTargetsClient"     -> lbClient_Targets(rootAdapter_LoadBalancers(r).ret).ret
      [] type = "vipClient"           -> ifaceClient_VIP(rootAdapter_Interfaces(r).ret).ret
      [] type = "ifacePrefixesClient" -> ifaceClient_Prefixes(rootAdapter_Interfaces(r).ret).ret

\* C8: an accessor call makes no legacy call and changes neither the root
\* nor the way it was built; whatever accessors were called before, the
\* handle in hand is the one a single navigation yields, and an operation
\* forwards to that handle's legacy client.
C8_AccessorsArePure ==
    /\ [][step'.kind = "accessor" =>
            (emitted' = <<>> /\ root' = root /\ built' = built)]_vars
    /\ [](cur # NoHandle => cur = SingleNavigation(root, cur.type))
    /\ []((IsOp /\ Len(emitted) > 0) =>
            emitted[1].client = SingleNavigation(root, step.recv).legacy)

C8_Witness ==
    /\ IsOp
    /\ navs >= 3
    /\ step.recv = "vipClient"
    /\ step.name = "Get"
    /\ emitted[1].client = root.legacy

\* C9: under a root built by AsV2(c), the root, every handle navigated to
\* and every forwarded call use c itself.
C9_SharedLegacyClient ==
    built.ctor = "AsV2" =>
        /\ root.legacy = built.arg
        /\ cur # NoHandle => cur.legacy = built.arg
        /\ \A k \in 1..Len(emitted) : emitted[k].client = built.arg

C9_Witness ==
    /\ built = [ctor |-> "AsV2", arg |-> [client |-> "legacy-1"]]
    /\ IsOp
    /\ step.recv = "routeClient"
    /\ step.name = "List"
    /\ step.opts = <<>>
    /\ emitted = << [client |-> [client |-> "legacy-1"], method |-> "ListRoutes",
                     ctx |-> step.ctx, args |-> <<42>>, ignored |-> <<>>] >>

\* C10: the operation-to-legacy-method mapping is total and injective: the
\* operation invoked forwards to exactly one legacy method, and no other
\* declared operation of any handle type forwards to that method.
C10_TotalAndInjective ==
    IsOp =>
        /\ <<step.recv, step.name>> \in FacadeOps
        /\ Cardinality({ emitted[k].method : k \in 1..Len(emitted) }) = 1
        /\ \A o \in FacadeOps \ { <<step.recv, step.name>> } :
              /\ Cardinality(WiredTo(o[1], o[2])) = 1
              /\ emitted[1].method \notin WiredTo(o[1], o[2])

C10_Witness ==
    /\ IsOp
    /\ step.recv = "ifacePrefixesClient"
    /\ step.name = "List"
    /\ emitted[1].method = "ListPrefixes"

-----------------------------------------------------------------------------
(* Operation calls in flight: SpecConc and SpecSeq *)

\* The operations the goroutines call: one on a root-level handle, one on
\* a sub-resource handle, both of the root built by AsV2.
CallOps == { <<"natClient", "Get">>, <<"lbPrefixesClient", "List">> }

\* the option lists they pass: the callers' of Spec, and one option value
\* passed twice
CallOpts ==
    CallerOpts \cup { << WithIgnoredCodes(<<1001>>), WithIgnoredCodes(<<1001>>) >> }

\* `var o callOptions` is a local of buildCallOptions: every call in flight
\* has an `o` of its own, in the stack of the goroutine making the call.
\* The mutant keeps one package-level `o` for all calls.
Frame_mutPackageLevel(g) == 1
Frame(g) == g

\* `var o callOptions` starts from the zero value, whatever the slot held
\* before.  The mutant goes on from what the previous call left there.
DeclareO_mutKeeps(before) == before
DeclareO(before) == ZeroCallOptions

\* what the method of the call makes of it on handle h, the options
\* coming from opts
MethodOf(call, h, opts, reply) ==
    IF call.recv = "natClient"
    THEN natClient_Get(h, call.ctx, call.id, opts, reply)
    ELSE lbPrefixesClient_List(h, call.ctx, call.id, opts, reply)

\* goroutine g calls an operation: buildCallOptions is entered
Begin(g) ==
    /\ gpc[g] = "idle"
    /\ budget[g] > 0
    /\ \E op \in CallOps, id \in Ids, opts \in CallOpts :
         gcall' = [gcall EXCEPT ![g] = [recv |-> op[1], name |-> op[2],
                                        ctx |-> "ctx-todo", id |-> id, opts |-> opts]]
    /\ gidx' = [gidx EXCEPT ![g] = 1]
    /\ frames' = [frames EXCEPT ![Frame(g)] = DeclareO(@)]
    /\ gpc' = [gpc EXCEPT ![g] = "loop"]
    /\ budget' = [budget EXCEPT ![g] = @ - 1]
    /\ UNCHANGED <<sent, prior>>
    /\ UNCHANGED optVars
    /\ UNCHANGED facadeVars

\* one iteration of the range loop of g's call
CallLoopStep(g) ==
    /\ gpc[g] = "loop"
    /\ gidx[g] <= Len(gcall[g].opts)
    /\ frames' = [frames EXCEPT ![Frame(g)] = LoopBody(gcall[g].opts[gidx[g]], @)]
    /\ gidx' = [gidx EXCEPT ![g] = @ + 1]
    /\ UNCHANGED <<gpc, gcall, sent, prior, budget>>
    /\ UNCHANGED optVars
    /\ UNCHANGED facadeVars

\* the loop of g's call is exhausted: return o
CallBuilt(g) ==
    /\ gpc[g] = "loop"
    /\ gidx[g] > Len(gcall[g].opts)
    /\ gpc' = [gpc EXCEPT ![g] = "built"]
    /\ UNCHANGED <<gcall, gidx, frames, sent, prior, budget>>
    /\ UNCHANGED optVars
    /\ UNCHANGED facadeVars

\* toLegacyIgnored converts the `o` of g's call and the method forwards:
\* the legacy call is the method's, its groups those built in the frame
CallForward(g) ==
    /\ gpc[g] = "built"
    /\ \E reply \in Replies :
         LET h == SingleNavigation(root, gcall[g].recv)
             e == MethodOf(gcall[g], h, gcall[g].opts, reply)
             made == [e.calls[1] EXCEPT !.ignored = LegacyForm(frames[Frame(g)])]
         IN  sent' = [sent EXCEPT ![g] = made]
    /\ prior' = [prior EXCEPT ![g] =
                    IF sent[g] = NoSent THEN <<>> ELSE << sent[g].ignored >>]
    /\ gpc' = [gpc EXCEPT ![g] = "idle"]
    /\ UNCHANGED <<gcall, gidx, frames, budget>>
    /\ UNCHANGED optVars
    /\ UNCHANGED facadeVars

RootBuilt ==
    /\ root = AsV2([client |-> "legacy-1"])
    /\ built = [ctor |-> "AsV2", arg |-> [client |-> "legacy-1"]]
    /\ cur = NoHandle
    /\ navs = 0
    /\ step = [kind |-> "ctor", recv |-> "clientv2", name |-> "AsV2"]
    /\ emitted = <<>>
    /\ ret = NoReturn

InitConc ==
    /\ OptsIdle
    /\ RootBuilt
    /\ CallsIdle
    /\ budget = [g \in Callers |-> 1]

InitSeq ==
    /\ OptsIdle
    /\ RootBuilt
    /\ CallsIdle
    /\ budget = [g \in Callers |-> IF g = 1 THEN MaxCalls ELSE 0]

NextCalls ==
    \E g \in Callers :
        \/ Begin(g)
        \/ CallLoopStep(g)
        \/ CallBuilt(g)
        \/ CallForward(g)

SpecConc == InitConc /\ [][NextCalls]_vars

SpecSeq == InitSeq /\ [][NextCalls]_vars

\* a call of g has been forwarded and g has not started another
Finished(g) == gpc[g] = "idle" /\ sent[g] # NoSent

\* C11: in every interleaving of concurrent calls, a call in flight sees in
\* its configuration only the codes of its own options applied so far, and
\* the legacy call it forwards carries its own method, context, parameter
\* and exactly the groups its own options stand for, whatever the other
\* calls did in between.
C11_CallsAreIndependent ==
    \A g \in Callers :
        /\ gpc[g] \in {"loop", "built"} =>
              frames[Frame(g)].ignoredCodes =
                  Contributed(SubSeq(gcall[g].opts, 1, gidx[g] - 1))
        /\ Finished(g) =>
              /\ sent[g].client = root.legacy
              /\ sent[g].method = CorrespondingMethod(gcall[g].recv, gcall[g].name)
              /\ sent[g].ctx = gcall[g].ctx
              /\ sent[g].args = << gcall[g].id >>
              /\ sent[g].ignored = ExpectedGroups(gcall[g].opts)

\* both calls are in flight, on the same handle type, each with its codes
C11_Witness ==
    /\ gpc[1] = "built"
    /\ gcall[1].opts = << WithIgnoredCodes(<<1001>>), WithIgnoredCodes(<<1002, 1003>>) >>
    /\ frames[Frame(1)].ignoredCodes = <<1001, 1002, 1003>>
    /\ gpc[2] = "loop"
    /\ gidx[2] = 2
    /\ gcall[2].opts = << WithIgnoredCodes(<<1001>>) >>
    /\ frames[Frame(2)].ignoredCodes = <<1001>>
    /\ gcall[2].recv = gcall[1].recv
    /\ gcall[2].id # gcall[1].id

\* C12: the configuration never accumulates across calls: a call enters
\* its loop with the zero configuration whatever earlier calls left behind,
\* so after any earlier calls a call forwards the groups toLegacyIgnored
\* gives for its own option list alone; an option value applied again
\* contributes the same codes again, and a call without options forwards
\* no group even after a call with options.
C12_NoAccumulation ==
    \A g \in Callers :
        /\ (gpc[g] = "loop" /\ gidx[g] = 1) =>
              frames[Frame(g)] = ZeroCallOptions
        /\ Finished(g) =>
              /\ sent[g].ignored = toLegacyIgnored(gcall[g].opts)
              /\ gcall[g].opts = <<>> => sent[g].ignored = <<>>
              /\ gcall[g].opts = << WithIgnoredCodes(<<1001>>), WithIgnoredCodes(<<1001>>) >> =>
                    sent[g].ignored = << <<1001, 1001>> >>

\* the call before forwarded [1001]; this one, without options, forwards
\* no group
C12_Witness ==
    /\ Finished(1)
    /\ prior[1] = << << <<1001>> >> >>
    /\ gcall[1].opts = <<>>
    /\ sent[1].ignored = <<>>

=============================================================================
